---- MODULE Spec2Model ----
(***************************************************************************)
(* Model of the `construct` crate (src/src/lib.rs): a view router for the  *)
(* terminal.  A Construct holds a terminal handle and an optional logo;    *)
(* Construct::view clears the terminal, writes the logo (if any) and the   *)
(* view's title, and hands over to the view's content renderer, which may  *)
(* write lines and may call Construct::view again on another view.         *)
(*                                                                         *)
(* A terminal is the sequence of the lines it shows, oldest first.  An     *)
(* Option<T> is a sequence of length at most one: <<>> is None, <<x>> is   *)
(* Some(x).  A Result<()> is a record: Ok, or an error with its origin.    *)
(***************************************************************************)
EXTENDS Integers, Sequences, FiniteSets, TLC

VARIABLES
    builder,    \* Option<ConstructBuilder>: the builder under construction
    calls,      \* the with_* calls made on the builder so far, in order
    construct,  \* Option<Construct>: the router, once new() or build() ran
    madeBy,     \* "none", "new" or "build": how the router was constructed
    screen,     \* [Terms -> Seq(STRING)]: the lines each terminal shows
    last        \* the record of the latest top-level Construct::view call

vars == <<builder, calls, construct, madeBy, screen, last>>

---------------------------------------------------------------------------
(* Bounds of the model and constants of the program.                       *)

\* Number of lines Term::clear asks the terminal to erase (lib.rs:138).
ClearLines == 999

\* Largest number of with_* calls made on one builder.
MaxBuilderCalls == 3

\* Largest number of lines the caller writes to the terminal on its own
\* between two view calls.
MaxPrior == 1

\* Terminal operations of one view call are numbered 1, 2, ...; the
\* operation that fails is drawn from 0..MaxFail (0: none fails).  The
\* longest call modelled, Nav with a logo, makes 9 of them.
MaxFail == 9

\* A view call is made only while the terminal shows at most
\* ClearLines + MaxOver lines (keeps the screen bounded).
MaxOver == 1

Terms == {"stdout", "stderr"}
Logos == {"Logo", "Banner"}

None == <<>>
Some(x) == <<x>>

Min(a, b) == IF a < b THEN a ELSE b

Ok == [ok |-> TRUE, err |-> "", at |-> 0]
\* The failure of the k-th terminal operation of a call.
IoError(k) == [ok |-> FALSE, err |-> "io", at |-> k]
\* A failure a content renderer returns on its own account.
ViewError == [ok |-> FALSE, err |-> "view", at |-> 0]

---------------------------------------------------------------------------
(* The views: implementations of trait View (title + content).  A content  *)
(* renderer is a list of steps, each propagating its failure with `?`:     *)
(*   write : terminal.write_line(s)?, n times in a row                     *)
(*   view  : construct.view(v)?  (navigation to another view)              *)
(*   fail  : return Err(..)                                                *)

Write(s, n) == [k |-> "write", s |-> s, n |-> n, v |-> ""]
Navigate(v) == [k |-> "view", s |-> "", n |-> 0, v |-> v]
Fail        == [k |-> "fail", s |-> "", n |-> 0, v |-> ""]

Views == {"Foo", "Blank", "Big", "Nav", "Bad"}

title(v) ==
    CASE v = "Foo"   -> "Title"
      [] v = "Blank" -> "Blank"
      [] v = "Big"   -> "Big"
      [] v = "Nav"   -> "Nav"
      [] v = "Bad"   -> "Bad"

Content(v) ==
    CASE v = "Foo"   -> <<Write("hello world", 1)>>
      [] v = "Blank" -> <<>>
      [] v = "Big"   -> <<Write("x", ClearLines - 1)>>
      [] v = "Nav"   -> <<Write("before", 1), Navigate("Foo"), Write("after", 1)>>
      [] v = "Bad"   -> <<Write("partial", 1), Fail>>

---------------------------------------------------------------------------
(* Construction.                                                           *)

\* Construct::new
new == [terminal |-> "stdout", logo |-> None]

\* Construct::builder
NewBuilder == [terminal |-> None, logo |-> None]

\* ConstructBuilder::with_terminal
with_terminal(self, terminal) == [self EXCEPT !.terminal = Some(terminal)]

\* Variant of with_logo with a slip: a logo already set is kept.
with_logo_keepsFirst(self, logo) ==
    IF self.logo = None THEN [self EXCEPT !.logo = Some(logo)] ELSE self

\* ConstructBuilder::with_logo
with_logo(self, logo) == [self EXCEPT !.logo = Some(logo)]

\* ConstructBuilder::build
build(self) ==
    LET terminal == IF self.terminal = None THEN "stdout" ELSE self.terminal[1]
    IN  [terminal |-> terminal, logo |-> self.logo]

---------------------------------------------------------------------------
(* The terminal.  A call of Construct::view threads an execution state     *)
(*   term : the lines the terminal shows                                   *)
(*   log  : the events of the call so far, in order                        *)
(*   ops  : how many terminal operations were attempted so far             *)
(*   res  : Ok while nothing failed, else the failure being propagated     *)
(* and f is the number of the terminal operation that fails (0: none).     *)

\* An event of a call: operation `op` with argument `arg`, issued by the view
\* call of `in`, n times in a row, succeeding (ok) or failing.
Event(op, arg, ok, in, n) == [op |-> op, arg |-> arg, ok |-> ok, in |-> in, n |-> n]

\* Term::clear_last_lines(n): erase the last n lines, or all of them when
\* fewer are shown.
clear_last_lines(term, n) == SubSeq(term, 1, Len(term) - Min(n, Len(term)))

\* Variant of clear with a slip: 99 lines instead of 999.
clear_short(term) == clear_last_lines(term, ClearLines \div 10)

\* impl Clear for Term: clear
clear(term) == clear_last_lines(term, ClearLines)

\* Variant of TermClear with a slip: the terminal is asked to clear but
\* nothing is erased.
TermClear_noErase(st, f, in) ==
    IF st.ops + 1 = f
    THEN [st EXCEPT !.ops = @ + 1, !.res = IoError(f),
                    !.log = Append(@, Event("clear", "", FALSE, in, 1))]
    ELSE [st EXCEPT !.ops = @ + 1,
                    !.log = Append(@, Event("clear", "", TRUE, in, 1))]

\* self.terminal.clear()? issued by the view call of `in`
TermClear(st, f, in) ==
    IF st.ops + 1 = f
    THEN [st EXCEPT !.ops = @ + 1, !.res = IoError(f),
                    !.log = Append(@, Event("clear", "", FALSE, in, 1))]
    ELSE [st EXCEPT !.ops = @ + 1, !.term = clear(@),
                    !.log = Append(@, Event("clear", "", TRUE, in, 1))]

\* terminal.write_line(s)?, n times in a row, stopping at the first failure
TermWriteLines(st, f, s, n, in) ==
    LET failing == f > st.ops /\ f <= st.ops + n
        written == IF failing THEN f - st.ops - 1 ELSE n
        good    == IF written > 0
                   THEN <<Event("write_line", s, TRUE, in, written)>> ELSE <<>>
        bad     == IF failing
                   THEN <<Event("write_line", s, FALSE, in, 1)>> ELSE <<>>
    IN  [st EXCEPT !.ops  = @ + written + Len(bad),
                   !.term = @ \o [i \in 1..written |-> s],
                   !.log  = @ \o good \o bad,
                   !.res  = IF failing THEN IoError(f) ELSE @]

\* terminal.write_line(s)?
TermWriteLine(st, f, s, in) == TermWriteLines(st, f, s, 1, in)

RECURSIVE view(_, _, _, _), RunSteps(_, _, _, _, _, _)

\* The steps i.. of the content renderer of v, stopping at the first failure.
RunSteps(self, v, steps, i, st, f) ==
    IF i > Len(steps) \/ ~st.res.ok THEN st
    ELSE LET step == steps[i]
             s1 == CASE step.k = "write" -> TermWriteLines(st, f, step.s, step.n, v)
                      [] step.k = "view"  -> view(self, step.v, st, f)
                      [] step.k = "fail"  -> [st EXCEPT !.res = ViewError]
         IN  RunSteps(self, v, steps, i + 1, s1, f)

\* View::content(view, &self.terminal, self)
content(self, v, st, f) ==
    LET s0 == [st EXCEPT !.log = Append(@, Event("content", "", TRUE, v, 1))]
        s1 == RunSteps(self, v, Content(v), 1, s0, f)
    IN  [s1 EXCEPT !.log = Append(@, Event("content_ret", s1.res.err, s1.res.ok, v, 1))]

\* Variant of ViewBody with a slip: the title is written after the content.
ViewBody_titleAfterContent(self, v, st, f) ==
    LET s1 == TermClear(st, f, v) IN
    IF ~s1.res.ok THEN s1
    ELSE LET s2 == IF self.logo # None
                   THEN TermWriteLine(s1, f, self.logo[1], v)
                   ELSE s1 IN
         IF ~s2.res.ok THEN s2
         ELSE LET s3 == content(self, v, s2, f) IN
              IF ~s3.res.ok THEN s3
              ELSE TermWriteLine(s3, f, title(v), v)

\* Variant of ViewBody with a slip: the logo is written after the title.
ViewBody_logoAfterTitle(self, v, st, f) ==
    LET s1 == TermClear(st, f, v) IN
    IF ~s1.res.ok THEN s1
    ELSE LET s2 == TermWriteLine(s1, f, title(v), v) IN
         IF ~s2.res.ok THEN s2
         ELSE LET s3 == IF self.logo # None
                        THEN TermWriteLine(s2, f, self.logo[1], v)
                        ELSE s2 IN
              IF ~s3.res.ok THEN s3
              ELSE content(self, v, s3, f)

\* Variant of ViewBody with a slip: the result of clear is dropped
\* (`let _ = self.terminal.clear();`).
ViewBody_ignoresClearError(self, v, st, f) ==
    LET s0 == TermClear(st, f, v)
        s1 == [s0 EXCEPT !.res = Ok] IN
    LET s2 == IF self.logo # None
              THEN TermWriteLine(s1, f, self.logo[1], v)
              ELSE s1 IN
    IF ~s2.res.ok THEN s2
    ELSE LET s3 == TermWriteLine(s2, f, title(v), v) IN
         IF ~s3.res.ok THEN s3
         ELSE content(self, v, s3, f)

\* Variant of ViewBody with a slip: the result of content is dropped
\* (`view.content(..).ok(); Ok(())`).
ViewBody_dropsResult(self, v, st, f) ==
    LET s1 == TermClear(st, f, v) IN
    IF ~s1.res.ok THEN s1
    ELSE LET s2 == IF self.logo # None
                   THEN TermWriteLine(s1, f, self.logo[1], v)
                   ELSE s1 IN
         IF ~s2.res.ok THEN s2
         ELSE LET s3 == TermWriteLine(s2, f, title(v), v) IN
              IF ~s3.res.ok THEN s3
              ELSE [content(self, v, s3, f) EXCEPT !.res = Ok]

\* The body of Construct::view: clear, logo, title, content.
ViewBody(self, v, st, f) ==
    LET s1 == TermClear(st, f, v) IN
    IF ~s1.res.ok THEN s1
    ELSE LET s2 == IF self.logo # None
                   THEN TermWriteLine(s1, f, self.logo[1], v)
                   ELSE s1 IN
         IF ~s2.res.ok THEN s2
         ELSE LET s3 == TermWriteLine(s2, f, title(v), v) IN
              IF ~s3.res.ok THEN s3
              ELSE content(self, v, s3, f)

\* Construct::view
view(self, v, st, f) ==
    LET s0 == [st EXCEPT !.log = Append(@, Event("view", "", TRUE, v, 1))]
        s1 == ViewBody(self, v, s0, f)
    IN  [s1 EXCEPT !.log = Append(@, Event("view_ret", s1.res.err, s1.res.ok, v, 1))]

---------------------------------------------------------------------------
(* State machine.                                                          *)

\* No view call since the caller last wrote to the terminal itself.
NoPrev == "none"

NoCall == [called |-> FALSE, view |-> "", f |-> 0, preLen |-> 0,
           prev |-> NoPrev, log |-> <<>>, res |-> Ok]

\* Before construction: the program holds neither a builder nor a router.
InitBuild ==
    /\ builder = None
    /\ calls = <<>>
    /\ construct = None
    /\ madeBy = "none"
    /\ screen = [t \in Terms |-> <<>>]
    /\ last = NoCall

\* After construction: the router is Construct::new() or
\* Construct::builder().with_terminal(Term::stderr()).with_logo("Logo").build(),
\* and the terminals are empty.
Init ==
    /\ builder = None
    /\ \/ /\ construct = Some(new)
          /\ calls = <<>>
          /\ madeBy = "new"
       \/ /\ construct = Some(build(with_logo(with_terminal(NewBuilder, "stderr"),
                                                  "Logo")))
          /\ calls = <<[op |-> "with_terminal", arg |-> "stderr"],
                       [op |-> "with_logo", arg |-> "Logo"]>>
          /\ madeBy = "build"
    /\ screen = [t \in Terms |-> <<>>]
    /\ last = NoCall

\* let construct = Construct::new();
New ==
    /\ construct = None /\ builder = None
    /\ construct' = Some(new)
    /\ madeBy' = "new"
    /\ UNCHANGED <<builder, calls, screen, last>>

\* let b = Construct::builder();
Builder ==
    /\ construct = None /\ builder = None
    /\ builder' = Some(NewBuilder)
    /\ UNCHANGED <<calls, construct, madeBy, screen, last>>

\* b = b.with_terminal(t);
WithTerminal ==
    /\ construct = None /\ builder # None
    /\ Len(calls) < MaxBuilderCalls
    /\ \E t \in Terms :
        /\ builder' = Some(with_terminal(builder[1], t))
        /\ calls' = Append(calls, [op |-> "with_terminal", arg |-> t])
    /\ UNCHANGED <<construct, madeBy, screen, last>>

\* b = b.with_logo(l);
WithLogo ==
    /\ construct = None /\ builder # None
    /\ Len(calls) < MaxBuilderCalls
    /\ \E l \in Logos :
        /\ builder' = Some(with_logo(builder[1], l))
        /\ calls' = Append(calls, [op |-> "with_logo", arg |-> l])
    /\ UNCHANGED <<construct, madeBy, screen, last>>

\* let construct = b.build();   (build consumes the builder)
Build ==
    /\ construct = None /\ builder # None
    /\ construct' = Some(build(builder[1]))
    /\ madeBy' = "build"
    /\ builder' = None
    /\ UNCHANGED <<calls, screen, last>>

\* The caller writes a line to the router's terminal on its own.
PriorWrite ==
    /\ construct # None
    /\ LET t == construct[1].terminal IN
        /\ Cardinality({i \in 1..Len(screen[t]) : screen[t][i] = "junk"}) < MaxPrior
        /\ screen' = [screen EXCEPT ![t] = Append(@, "junk")]
    /\ last' = NoCall
    /\ UNCHANGED <<builder, calls, construct, madeBy>>

\* Variant of View with a slip: the call takes the logo out of the router
\* (`self.logo.take()`).
View_takesLogo ==
    /\ construct # None
    /\ Len(screen[construct[1].terminal]) <= ClearLines + MaxOver
    /\ \E v \in Views, f \in 0..MaxFail :
        LET self == construct[1]
            st0  == [term |-> screen[self.terminal], log |-> <<>>,
                     ops |-> 0, res |-> Ok]
            r    == view(self, v, st0, f)
        IN  /\ screen' = [screen EXCEPT ![self.terminal] = r.term]
            /\ last' = [called |-> TRUE, view |-> v, f |-> f,
                        preLen |-> Len(screen[self.terminal]),
                        prev |-> IF ~last.called THEN NoPrev
                                 ELSE IF last.res.ok THEN "ok" ELSE "err",
                        log |-> r.log, res |-> r.res]
    /\ construct' = Some([construct[1] EXCEPT !.logo = None])
    /\ UNCHANGED <<builder, calls, madeBy>>

\* construct.view(v), the f-th terminal operation of the call failing.
\* `last` records the call: the view, the failing operation, how many lines
\* the terminal showed before, the call made immediately before (if any),
\* the events of the call and its result.
View ==
    /\ construct # None
    /\ Len(screen[construct[1].terminal]) <= ClearLines + MaxOver
    /\ \E v \in Views, f \in 0..MaxFail :
        LET self == construct[1]
            st0  == [term |-> screen[self.terminal], log |-> <<>>,
                     ops |-> 0, res |-> Ok]
            r    == view(self, v, st0, f)
        IN  /\ screen' = [screen EXCEPT ![self.terminal] = r.term]
            /\ last' = [called |-> TRUE, view |-> v, f |-> f,
                        preLen |-> Len(screen[self.terminal]),
                        prev |-> IF ~last.called THEN NoPrev
                                 ELSE IF last.res.ok THEN "ok" ELSE "err",
                        log |-> r.log, res |-> r.res]
    /\ UNCHANGED <<builder, calls, construct, madeBy>>

\* Construction of a router.
NextBuild ==
    \/ New
    \/ Builder
    \/ WithTerminal
    \/ WithLogo
    \/ Build

SpecBuild == InitBuild /\ [][NextBuild]_vars

\* Use of a constructed router.
Next ==
    \/ PriorWrite
    \/ View

Spec == Init /\ [][Next]_vars

---------------------------------------------------------------------------
(* Reading the record of a call.                                           *)

\* The router in use and the lines its terminal shows.
Router == construct[1]
Visible == screen[Router.terminal]

IsTermOp(e) == e.op \in {"clear", "write_line"}

\* The events of the view call of w, the writes of its content included.
Frame(log, w) == SelectSeq(log, LAMBDA e : e.in = w)

\* The views that were called (at any depth) during the call.
Called(log) == {log[i].in : i \in 1..Len(log)}

\* Sum of the repetition counts of the events of seq.
RECURSIVE SumN(_)
SumN(seq) == IF seq = <<>> THEN 0 ELSE Head(seq).n + SumN(Tail(seq))

\* How many times an operation satisfying P was issued in seq.
CountOf(seq, P(_)) == SumN(SelectSeq(seq, P))

\* Index of the first event of seq with operation op, 0 when there is none.
Pos(seq, op) ==
    LET I == {i \in 1..Len(seq) : seq[i].op = op}
    IN  IF I = {} THEN 0 ELSE CHOOSE i \in I : \A j \in I : i <= j

\* The events of the view call of w up to the invocation of its content:
\* the call itself, then what Construct::view does on its own account.
Prelude(log, w) ==
    LET fr == Frame(log, w)
        c  == Pos(fr, "content")
        r  == Pos(fr, "view_ret")
    IN  IF c > 0 THEN SubSeq(fr, 1, c - 1) ELSE SubSeq(fr, 1, r - 1)

\* Number of lines the call wrote successfully.
Written(log) == CountOf(log, LAMBDA e : e.op = "write_line" /\ e.ok)

\* The lines a content renderer writes when nothing fails, for a renderer
\* that does not navigate.
RECURSIVE ContentLines(_, _)
ContentLines(steps, i) ==
    IF i > Len(steps) THEN <<>>
    ELSE (IF steps[i].k = "write"
          THEN [j \in 1..steps[i].n |-> steps[i].s] ELSE <<>>)
         \o ContentLines(steps, i + 1)

Navigates(v) == \E i \in 1..Len(Content(v)) : Content(v)[i].k = "view"

\* What a terminal that was wiped completely shows after self.view(v)
\* succeeded: the reference the claims compare the terminal with.
RECURSIVE Rendered(_, _), RenderSteps(_, _, _, _)
RenderSteps(self, steps, i, acc) ==
    IF i > Len(steps) THEN acc
    ELSE LET step == steps[i]
             nxt == CASE step.k = "write" -> acc \o [j \in 1..step.n |-> step.s]
                       [] step.k = "view"  -> Rendered(self, step.v)
                       [] step.k = "fail"  -> acc
         IN  RenderSteps(self, steps, i + 1, nxt)
Rendered(self, v) == RenderSteps(self, Content(v), 1, self.logo \o <<title(v)>>)

---------------------------------------------------------------------------
(* Claims.                                                                 *)

\* C1: when a view call succeeds, what Construct::view does happens in this
\* order: the clear, the logo line if and only if a logo is configured, the
\* title line, then the content renderer, whose writes all come after the
\* title; with no logo the title is the first line written.  On an empty
\* terminal with no logo, view Foo (title "Title", content writing
\* "hello world") leaves exactly the lines "Title", "hello world".
C1_WritesInOrder ==
    (last.called /\ last.res.ok) =>
        LET v  == last.view
            fr == Frame(last.log, v)
            k  == Len(Router.logo)
            W  == SelectSeq(last.log, LAMBDA e : e.op = "write_line")
        IN  /\ Len(fr) >= 6 + k
            /\ fr[1] = Event("view", "", TRUE, v, 1)
            /\ fr[2] = Event("clear", "", TRUE, v, 1)
            /\ Router.logo # None =>
                   fr[3] = Event("write_line", Router.logo[1], TRUE, v, 1)
            /\ fr[3 + k] = Event("write_line", title(v), TRUE, v, 1)
            /\ fr[4 + k] = Event("content", "", TRUE, v, 1)
            /\ fr[Len(fr) - 1] = Event("content_ret", "", TRUE, v, 1)
            /\ fr[Len(fr)] = Event("view_ret", "", TRUE, v, 1)
            /\ W[1].arg = IF Router.logo # None THEN Router.logo[1] ELSE title(v)
            /\ ~Navigates(v) =>
                   /\ Written(last.log) = k + 1 + Len(ContentLines(Content(v), 1))
                   /\ SubSeq(Visible, Len(Visible) - Written(last.log) + 1,
                             Len(Visible))
                        = Router.logo \o <<title(v)>> \o ContentLines(Content(v), 1)
            /\ (v = "Foo" /\ Router.logo = None /\ last.preLen = 0) =>
                   Visible = <<"Title", "hello world">>

C1_Witness ==
    /\ last.called /\ last.res.ok /\ last.view = "Foo"
    /\ Router.logo = None /\ last.preLen = 0
    /\ Visible = <<"Title", "hello world">>

\* C2: after view(A) immediately followed by view(B), both succeeding, the
\* terminal shows B's output only (logo if configured, B's title, B's
\* content): no line of A's call remains, however many lines A wrote.
C2_NoResidueOfPreviousView ==
    (last.called /\ last.res.ok /\ last.prev = "ok") =>
        Visible = Rendered(Router, last.view)

\* C3: when a terminal operation of a view call fails (the clear, the logo
\* write, the title write or a write of the content), the call returns that
\* failure and nothing more is done to the terminal in that call: after a
\* failed clear neither logo nor title is written, after a failed logo write
\* no title is written, after a failed title write content is not run.
C3_FailureStopsTheCall ==
    last.called =>
        \A i \in 1..Len(last.log) :
            (IsTermOp(last.log[i]) /\ ~last.log[i].ok) =>
                /\ last.res = IoError(SumN(SelectSeq(SubSeq(last.log, 1, i),
                                                     IsTermOp)))
                /\ \A j \in (i + 1)..Len(last.log) :
                       last.log[j].op \in {"content_ret", "view_ret"}
                /\ (Pos(last.log, "clear") = i) => Len(Visible) = last.preLen
                /\ \A w \in Called(last.log) :
                       LET pre == Prelude(last.log, w)
                       IN  (\E n \in 1..Len(pre) : ~pre[n].ok) =>
                               /\ ~pre[Len(pre)].ok
                               /\ Pos(Frame(last.log, w), "content") = 0

C3_Witness ==
    /\ last.called /\ ~last.res.ok /\ Router.logo # None
    /\ \E i \in 1..Len(last.log) :
           /\ last.log[i] = Event("write_line", Router.logo[1], FALSE, last.view, 1)
           /\ Pos(last.log, "content") = 0
    /\ Visible = <<>>

\* C4: with a logo configured, every view call (nested ones included) that
\* reaches its title write has written the logo line exactly once, and
\* before the title.  On an empty terminal with logo "Logo", view Foo leaves
\* exactly the lines "Logo", "Title", "hello world".
C4_LogoBeforeTitle ==
    (last.called /\ Router.logo # None) =>
        /\ \A w \in Called(last.log) :
               LET fr == Frame(last.log, w)
                   T  == {i \in 1..Len(fr) : fr[i].op = "write_line"
                                             /\ fr[i].arg = title(w)}
                   L  == {i \in 1..Len(fr) : fr[i].op = "write_line"
                                             /\ fr[i].arg = Router.logo[1]}
               IN  T # {} =>
                       /\ Cardinality(L) = 1
                       /\ \A i \in L : fr[i].ok /\ fr[i].n = 1
                       /\ \A i \in L, j \in T : i < j
        /\ (last.res.ok /\ last.view = "Foo" /\ Router.logo = <<"Logo">>
                /\ last.preLen = 0) =>
               Visible = <<"Logo", "Title", "hello world">>

C4_Witness ==
    /\ last.called /\ last.res.ok /\ last.view = "Foo"
    /\ Router.logo = <<"Logo">> /\ last.preLen = 0
    /\ Visible = <<"Logo", "Title", "hello world">>

\* The number of lines the clear of the latest call erased, for a call whose
\* view does not navigate: lines shown before, plus lines written, minus
\* lines shown after.
Erased == last.preLen + Written(last.log) - Len(Visible)

\* C5: clear erases exactly as many lines as the terminal shows, no more and
\* no fewer.
C5_ClearErasesExactly ==
    (/\ last.called
     /\ ~Navigates(last.view)
     /\ Event("clear", "", TRUE, last.view, 1) \in
            {last.log[i] : i \in 1..Len(last.log)}) =>
        Erased = last.preLen

\* C6: whatever the terminal showed before, up to 999 lines, after a
\* successful view(v) it shows what the router's logo and v determine and
\* nothing else; the caller clears nothing itself.  In particular view(v)
\* after view(v) shows the same as one view(v).
C6_ResetBeforeRender ==
    (last.called /\ last.res.ok /\ last.preLen <= ClearLines) =>
        /\ Visible = Rendered(Router, last.view)
        /\ \A t \in Terms \ {Router.terminal} : screen[t] = <<>>

C6_Witness ==
    /\ last.called /\ last.res.ok /\ last.preLen = ClearLines
    /\ last.view = "Foo"
    /\ Visible = Router.logo \o <<"Title", "hello world">>

\* The logo lines the view call of w wrote on its own account, when the call
\* got as far as its title: what stands between its clear and its title.
LogoUsed(log, w) ==
    LET pre == Prelude(log, w)
    IN  [i \in 1..(Len(pre) - 3) |-> pre[2 + i].arg]

ReachedTitle(log, w) ==
    LET pre == Prelude(log, w)
    IN  /\ Len(pre) >= 3
        /\ pre[Len(pre)].op = "write_line"
        /\ pre[Len(pre)].arg = title(w)

\* C7: no step changes the router once it is constructed: view calls,
\* succeeding or failing, leave its logo and its terminal handle as they are,
\* and every call, the nested ones included, uses that same logo.
C7_RouterNeverMutated ==
    [][ /\ construct' = construct
        /\ last'.called =>
               \A w \in Called(last'.log) :
                   ReachedTitle(last'.log, w) =>
                       LogoUsed(last'.log, w) = construct[1].logo ]_vars

C7_Witness ==
    /\ last.called /\ last.res.ok /\ last.view = "Nav"
    /\ Router.logo = <<"Logo">>
    /\ LogoUsed(last.log, "Nav") = <<"Logo">>
    /\ LogoUsed(last.log, "Foo") = <<"Logo">>

\* The argument of the latest with_* call named op, None when there is none.
LastArg(op) ==
    LET I == {i \in 1..Len(calls) : calls[i].op = op}
    IN  IF I = {} THEN None
        ELSE Some(calls[CHOOSE i \in I : \A j \in I : j <= i].arg)

\* C8: a router built with no option equals Construct::new() (standard
\* output, no logo); a built router carries a logo iff with_logo was called
\* and uses the terminal given to with_terminal instead of standard output;
\* of several calls of one option the last one counts; neither option
\* affects the other.
C8_BuilderAgreesWithNew ==
    construct # None =>
        /\ madeBy = "new" =>
               construct[1] = [terminal |-> "stdout", logo |-> None]
        /\ (madeBy = "build" /\ calls = <<>>) => construct[1] = new
        /\ madeBy = "build" =>
               /\ construct[1].logo = LastArg("with_logo")
               /\ construct[1].terminal =
                      (IF LastArg("with_terminal") = None THEN "stdout"
                       ELSE LastArg("with_terminal")[1])

C8_Witness ==
    /\ madeBy = "build"
    /\ calls = <<[op |-> "with_logo", arg |-> "Logo"],
                 [op |-> "with_terminal", arg |-> "stderr"],
                 [op |-> "with_logo", arg |-> "Banner"]>>
    /\ construct = Some([terminal |-> "stderr", logo |-> Some("Banner")])

\* C9: nothing is retried and the result of content is passed through: in
\* every view call the clear is attempted exactly once, the logo write and
\* the title write at most once each, content is invoked at most once, and
\* exactly once when clear, logo write and title write all succeeded, never
\* otherwise; when content is invoked the call returns what content returned.
C9_NoRetryResultPassedThrough ==
    last.called =>
        /\ \A w \in Called(last.log) :
               LET fr   == Frame(last.log, w)
                   pre  == Prelude(last.log, w)
                   k    == Len(Router.logo)
                   inv  == CountOf(fr, LAMBDA e : e.op = "content")
                   cret == fr[Pos(fr, "content_ret")]
                   vret == fr[Pos(fr, "view_ret")]
               IN  /\ CountOf(pre, LAMBDA e : e.op = "clear") = 1
                   /\ CountOf(fr, LAMBDA e : e.op = "clear") = 1
                   /\ CountOf(pre, LAMBDA e : e.op = "write_line"
                                              /\ e.arg = title(w)) <= 1
                   /\ CountOf(pre, LAMBDA e : e.op = "write_line"
                                              /\ e.arg # title(w)) <= k
                   /\ inv <= 1
                   /\ inv = 1 <=> /\ Len(pre) = 3 + k
                                  /\ \A i \in 1..Len(pre) : pre[i].ok
                   /\ CountOf(fr, LAMBDA e : e.op = "content_ret") = inv
                   /\ CountOf(fr, LAMBDA e : e.op = "view_ret") = 1
                   /\ inv = 1 => /\ vret.ok = cret.ok
                                 /\ vret.arg = cret.arg
        /\ LET top == last.log[Len(last.log)]
           IN  /\ top.op = "view_ret" /\ top.in = last.view
               /\ last.res.ok = top.ok
               /\ last.res.err = top.arg

C9_Witness ==
    /\ last.called /\ last.view = "Bad" /\ last.res = ViewError
    /\ Event("content_ret", "view", FALSE, "Bad", 1) \in
           {last.log[i] : i \in 1..Len(last.log)}

\* C10: navigation from inside a content renderer replaces the outer screen.
\* When Nav's content writes "before", calls construct.view(Foo) and then
\* writes "after", Foo's clear comes after Nav's logo, title and "before" and
\* erases them; once the call returned successfully the terminal shows the
\* logo (if configured) once, Foo's title and content, then "after", and
\* Nav's title is gone.
C10_NavigationReplacesScreen ==
    (last.called /\ last.view = "Nav" /\ last.res.ok) =>
        LET k      == Len(Router.logo)
            \* lines from before the call that survive both clears
            left1  == IF last.preLen > ClearLines
                      THEN last.preLen - ClearLines ELSE 0
            over   == IF left1 + k + 2 > ClearLines
                      THEN left1 + k + 2 - ClearLines ELSE 0
            shown  == SubSeq(Visible, over + 1, Len(Visible))
            idx(e) == CHOOSE i \in 1..Len(last.log) : last.log[i] = e
        IN  /\ Len(Visible) = over + k + 3
            /\ shown = Router.logo \o <<"Title", "hello world", "after">>
            /\ \A i \in 1..Len(shown) : shown[i] # title("Nav")
            /\ idx(Event("clear", "", TRUE, "Foo", 1))
                   > idx(Event("write_line", "before", TRUE, "Nav", 1))
            /\ idx(Event("write_line", "before", TRUE, "Nav", 1))
                   > idx(Event("write_line", title("Nav"), TRUE, "Nav", 1))
            /\ idx(Event("write_line", "after", TRUE, "Nav", 1))
                   > idx(Event("view_ret", "", TRUE, "Foo", 1))

C10_Witness ==
    /\ last.called /\ last.view = "Nav" /\ last.res.ok
    /\ Visible = <<"Logo", "Title", "hello world", "after">>

====
